---- MODULE Spec2Model ----
(***************************************************************************)
(* Model of the Discord attendance bot (src/index.js): one SQLite table    *)
(* "attendance" and the interactionCreate handler with its three slash     *)
(* commands attend_add, attend_updatefile and attend_list.                 *)
(*                                                                         *)
(* A handler invocation is an async function: it runs to its next await,   *)
(* and other invocations run in between.  Each await (a store call or a    *)
(* reply) is one step of the model; a store statement is atomic.           *)
(*                                                                         *)
(* A JavaScript value that may be null/undefined is a sequence of length   *)
(* at most one: <<>> is null, <<v>> is the value v.                        *)
(***************************************************************************)
EXTENDS Integers, Sequences, FiniteSets, TLC

VARIABLES
    table,    \* the rows of the attendance table
    seq,      \* sqlite_sequence of the table: the largest rowid ever assigned
    clock,    \* the last time read by new Date(), in milliseconds
    cmd,      \* the handler invocations: slot -> invocation record
    written   \* history: id -> the proofs written to the row, the INSERT's first

vars == <<table, seq, clock, cmd, written>>

-----------------------------------------------------------------------------
(* Bounds of the model *)

MaxInFlight == 2    \* handler invocations that may overlap
MaxRows == 2        \* rows the table may hold
MaxUpdates == 2     \* UPDATE statements run per row

-----------------------------------------------------------------------------
(* Constants of the program *)

DefaultLimit == 5
MaxLimit == 20
MinLimit == 1
MsPerSecond == 1000

Null == <<>>
Some(v) == <<v>>

Slots == 1..MaxInFlight

Users == {"u1", "u2"}

\* interaction.user.tag of a user
UserTag(u) == IF u = "u1" THEN "alice#0001" ELSE "bob#0002"

\* the attachments a user may submit: (url, name)
Att1 == [url |-> "url1", name |-> "f1.pdf"]
Att2 == [url |-> "url2", name |-> "f2.pdf"]
Attachments == {Att1, Att2}

\* JavaScript truthiness of a nullable string / of a nullable integer
TruthyStr(o) == o /= Null /\ o[1] /= ""
TruthyInt(o) == o /= Null /\ o[1] /= 0

\* String.prototype.toUpperCase on the two status values
ToUpperCase(s) ==
    CASE s = "present" -> "PRESENT"
      [] s = "absent" -> "ABSENT"
      [] OTHER -> s

\* new Date().toISOString(): "YYYY-MM-DDTHH:MM:SS.mmmZ", kept as its seconds
\* part and its milliseconds part
ToISOString(t) == [sec |-> t \div MsPerSecond, ms |-> t % MsPerSecond]

\* SQLite datetime(createdAt): "YYYY-MM-DD HH:MM:SS", the fraction is dropped
Datetime(iso) == iso.sec

\* new Date(createdAt).toLocaleString(): date and time to the second
ToLocaleString(iso) == iso.sec

-----------------------------------------------------------------------------
(* The store *)

Ids(tbl) == {r.id : r \in tbl}

MaxOf(S) == IF S = {} THEN 0 ELSE CHOOSE m \in S : \A x \in S : x <= m

\* a rowid that is not advanced
NextRowid_NotAdvanced(tbl, sq) == MaxOf(Ids(tbl) \cup {sq})

\* INTEGER PRIMARY KEY AUTOINCREMENT: one more than the largest rowid ever used
NextRowid(tbl, sq) == MaxOf(Ids(tbl) \cup {sq}) + 1

\* an insert that replaces the user's earlier rows: INSERT OR REPLACE on userId
InsertRow_ReplacesOwn(tbl, sq, vals) ==
    {r \in tbl : r.userId /= vals.userId}
       \cup {[id |-> NextRowid(tbl, sq),
               userId |-> vals.userId,
               userName |-> vals.userName,
               subject |-> vals.subject,
               status |-> vals.status,
               reason |-> vals.reason,
               fileUrl |-> vals.fileUrl,
               fileName |-> vals.fileName,
               createdAt |-> vals.createdAt]}

\* INSERT INTO attendance (...) VALUES (...)
InsertRow(tbl, sq, vals) ==
    tbl \cup {[id |-> NextRowid(tbl, sq),
               userId |-> vals.userId,
               userName |-> vals.userName,
               subject |-> vals.subject,
               status |-> vals.status,
               reason |-> vals.reason,
               fileUrl |-> vals.fileUrl,
               fileName |-> vals.fileName,
               createdAt |-> vals.createdAt]}

\* a lookup that forgets the owner: WHERE id = ?
FindOwned_ByIdOnly(tbl, id, user) ==
    LET hits == {r \in tbl : r.id = id}
    IN  IF hits = {} THEN Null ELSE Some(CHOOSE r \in hits : TRUE)

\* SELECT * FROM attendance WHERE id = ? AND userId = ?   (db.get: first row)
FindOwned(tbl, id, user) ==
    LET hits == {r \in tbl : r.id = id /\ r.userId = user}
    IN  IF hits = {} THEN Null ELSE Some(CHOOSE r \in hits : TRUE)

\* an update that only fills an empty proof: ... WHERE id = ? AND fileUrl IS NULL
UpdateProof_IfEmpty(tbl, id, proof) ==
    {IF r.id = id /\ r.fileUrl = Null
        THEN [r EXCEPT !.fileUrl = Some(proof.url), !.fileName = Some(proof.name)]
        ELSE r : r \in tbl}

\* an update without its WHERE id = ?
UpdateProof_AllRows(tbl, id, proof) ==
    {[r EXCEPT !.fileUrl = Some(proof.url), !.fileName = Some(proof.name)] : r \in tbl}

\* an update that forgets the name: SET fileUrl = ? WHERE id = ?
UpdateProof_UrlOnly(tbl, id, proof) ==
    {IF r.id = id THEN [r EXCEPT !.fileUrl = Some(proof.url)] ELSE r : r \in tbl}

\* an update that writes the name of the proof before: the two columns taken
\* from different attachments
UpdateProof_StaleName(tbl, id, proof) ==
    {IF r.id = id
        THEN [r EXCEPT !.fileUrl = Some(proof.url),
                       !.fileName = IF r.fileName = Null THEN Some(proof.name)
                                                     ELSE r.fileName]
        ELSE r : r \in tbl}

\* UPDATE attendance SET fileUrl = ?, fileName = ? WHERE id = ?
UpdateProof(tbl, id, proof) ==
    {IF r.id = id
        THEN [r EXCEPT !.fileUrl = Some(proof.url), !.fileName = Some(proof.name)]
        ELSE r : r \in tbl}

\* the orders in which ORDER BY datetime(createdAt) DESC may return the rows S:
\* rows with equal keys come in an order SQL leaves open
OrderedDesc(S) ==
    LET n == Cardinality(S)
    IN  {s \in [1..n -> S] :
            /\ \A i, j \in 1..n : i /= j => s[i] /= s[j]
            /\ \A i, j \in 1..n :
                  i < j => Datetime(s[i].createdAt) >= Datetime(s[j].createdAt)}

\* LIMIT n of SQLite: a negative n is no limit
Limited(s, n) == IF n < 0 \/ n >= Len(s) THEN s ELSE SubSeq(s, 1, n)

\* a listing that forgets the owner: no WHERE userId = ?
ListRecent_AllUsers(tbl, user, limit) ==
    {Limited(s, limit) : s \in OrderedDesc(tbl)}

\* SELECT * FROM attendance WHERE userId = ?
\*   ORDER BY datetime(createdAt) DESC LIMIT ?          (the possible results)
ListRecent(tbl, user, limit) ==
    {Limited(s, limit) : s \in OrderedDesc({r \in tbl : r.userId = user})}

-----------------------------------------------------------------------------
(* The handlers' own computations *)

\* a reason that gets the placeholder whatever the status
AddReason_AlwaysPlaceholder(reasonOpt, status) ==
    IF TruthyStr(reasonOpt) THEN reasonOpt ELSE Some("Not provided")

\* a reason that is replaced only when it is null: reasonOpt ?? ...
AddReason_NullishOnly(reasonOpt, status) ==
    IF reasonOpt /= Null THEN reasonOpt
    ELSE IF status = "absent" THEN Some("Not provided") ELSE Null

\* const reason = reasonOpt || (status === "absent" ? "Not provided" : null)
AddReason(reasonOpt, status) ==
    IF TruthyStr(reasonOpt) THEN reasonOpt
    ELSE IF status = "absent" THEN Some("Not provided") ELSE Null

\* let limit = getInteger("limit") || 5; if (limit > 20) ...; if (limit < 1) ...
EffectiveLimit(limitOpt) ==
    LET l0 == IF TruthyInt(limitOpt) THEN limitOpt[1] ELSE DefaultLimit
        l1 == IF l0 > MaxLimit THEN MaxLimit ELSE l0
    IN  IF l1 < MinLimit THEN MinLimit ELSE l1

\* the embed of attend_add
SavedEmbed(id, subject, status, reason, fileUrl, fileName) ==
    [kind |-> "saved", id |-> id, class |-> subject, status |-> ToUpperCase(status),
     reason |-> IF TruthyStr(reason) THEN reason ELSE Null,
     proof |-> IF TruthyStr(fileUrl)
                 THEN (IF TruthyStr(fileName) THEN fileName ELSE fileUrl)
                 ELSE Null]

\* the embed of attend_updatefile
UpdatedEmbed(id, rec, proof) ==
    [kind |-> "updated", id |-> id, class |-> rec.subject,
     status |-> ToUpperCase(rec.status), file |-> proof.name]

NotFoundMsg == [kind |-> "notfound"]
NoRecordsMsg == [kind |-> "norecords"]
FailureMsg == [kind |-> "failure"]

\* one entry of the attend_list text
ListLine(r) ==
    [id |-> r.id, subject |-> r.subject, status |-> ToUpperCase(r.status),
     date |-> ToLocaleString(r.createdAt),
     reason |-> IF TruthyStr(r.reason) THEN r.reason ELSE Null,
     proof |-> IF TruthyStr(r.fileUrl) THEN r.fileUrl ELSE Null]

\* the reply of attend_list
ListMsg(rows) ==
    IF Len(rows) = 0 THEN NoRecordsMsg
    ELSE [kind |-> "list", count |-> Len(rows),
          lines |-> [i \in 1..Len(rows) |-> ListLine(rows[i])]]

-----------------------------------------------------------------------------
(* Handler invocations *)

Idle ==
    [pc |-> "idle", user |-> "u1", name |-> "none",
     subject |-> Null, status |-> Null, reasonOpt |-> Null, proof |-> Null,
     id |-> Null, limitOpt |-> Null,
     reason |-> Null, createdAt |-> Null, fileUrl |-> Null, fileName |-> Null,
     lastID |-> Null, rec |-> Null, limit |-> Null, rows |-> Null,
     out |-> Null, replied |-> FALSE, replies |-> <<>>,
     err |-> Null, escaped |-> FALSE]

Free(c) == cmd[c].pc \in {"idle", "done"}

\* the handler has returned: its locals are gone, what the user was sent stays
Returned(k, sent, escaped) ==
    [Idle EXCEPT !.pc = "done", !.name = k.name, !.replied = (sent /= <<>>),
                 !.replies = sent, !.escaped = escaped]

\* the inputs of the commands that overlap
Small ==
    [overlap |-> TRUE,
     subjects |-> {"Math"},
     statuses |-> {"absent"},
     reasons |-> {Null},
     proofs |-> {Null},
     attachments |-> Attachments,
     ids |-> 1..MaxRows,
     limits |-> {Some(1)},
     times |-> {1000}]

\* the inputs of the commands that come one after the other
Rich ==
    [overlap |-> FALSE,
     subjects |-> {"Math"},
     statuses |-> {"present", "absent"},
     reasons |-> {Null, Some(""), Some("sick")},
     proofs |-> {Null, Some(Att1)},
     attachments |-> Attachments,
     ids |-> 1..(MaxRows + 1),
     limits |-> {Null, Some(-3), Some(0), Some(1), Some(2), Some(20), Some(21), Some(25)},
     times |-> {1000}]

Init ==
    /\ table = {}
    /\ seq = 0
    /\ clock = 1000
    /\ cmd = [c \in Slots |-> Idle]
    /\ written = <<>>

\* an interaction may be delivered to the handler: into the first free slot,
\* and, where the commands do not overlap, once the one before has returned
CanDeliver(c, D) ==
    /\ Free(c)
    /\ \A d \in Slots : d < c => ~Free(d)
    /\ D.overlap \/ \A d \in Slots : Free(d)

\* interactionCreate with commandName attend_add, up to the await of the INSERT
DeliverAdd(c, D) ==
    /\ CanDeliver(c, D)
    /\ Cardinality(table)
         + Cardinality({d \in Slots : cmd[d].pc = "add_insert"}) < MaxRows
    /\ \E u \in Users, subject \in D.subjects, status \in D.statuses,
          reasonOpt \in D.reasons, proof \in D.proofs, now \in D.times :
          /\ now >= clock
          /\ clock' = now
          /\ cmd' = [cmd EXCEPT ![c] =
                [Idle EXCEPT
                    !.pc = "add_insert", !.user = u, !.name = "attend_add",
                    !.subject = Some(subject), !.status = Some(status),
                    !.reasonOpt = reasonOpt, !.proof = proof,
                    !.reason = AddReason(reasonOpt, status),
                    !.createdAt = Some(ToISOString(now)),
                    !.fileUrl = IF proof /= Null THEN Some(proof[1].url) ELSE Null,
                    !.fileName = IF proof /= Null THEN Some(proof[1].name) ELSE Null]]
    /\ UNCHANGED <<table, seq, written>>

\* an id taken from the connection before the INSERT ran
InsertedId_Stale(tbl, sq) == MaxOf(Ids(tbl) \cup {sq})

\* result.lastID: the rowid of the row the INSERT statement inserted
InsertedId(tbl, sq) == NextRowid(tbl, sq)

\* the INSERT completes; the handler builds the embed and calls reply
AddInsert(c) ==
    /\ cmd[c].pc = "add_insert"
    /\ LET k == cmd[c]
           rowid == NextRowid(table, seq)
           id == InsertedId(table, seq)
       IN  /\ table' = InsertRow(table, seq,
                          [userId |-> k.user, userName |-> UserTag(k.user),
                           subject |-> k.subject[1], status |-> k.status[1],
                           reason |-> k.reason, fileUrl |-> k.fileUrl,
                           fileName |-> k.fileName, createdAt |-> k.createdAt[1]])
           /\ seq' = rowid
           /\ written' = (rowid :> <<k.proof>>) @@ written
           /\ cmd' = [cmd EXCEPT ![c] =
                 [k EXCEPT !.pc = "reply", !.lastID = Some(id),
                           !.out = Some(SavedEmbed(id, k.subject[1], k.status[1],
                                                   k.reason, k.fileUrl, k.fileName))]]
    /\ UNCHANGED clock

\* interactionCreate with commandName attend_updatefile, up to the await of
\* the SELECT
DeliverUpdatefile(c, D) ==
    /\ CanDeliver(c, D)
    /\ \E u \in Users, id \in D.ids, proof \in D.attachments :
          /\ (IF id \in DOMAIN written THEN Len(written[id]) - 1 ELSE 0)
               + Cardinality({d \in Slots :
                     /\ cmd[d].pc \in {"upd_select", "upd_update"}
                     /\ cmd[d].id = Some(id)}) < MaxUpdates
          /\ cmd' = [cmd EXCEPT ![c] =
                [Idle EXCEPT
                    !.pc = "upd_select", !.user = u, !.name = "attend_updatefile",
                    !.id = Some(id), !.proof = Some(proof)]]
    /\ UNCHANGED <<table, seq, clock, written>>

\* an answer that tells a record of somebody else from no record
LookupReply_Leaky(tbl, id, user) ==
    IF FindOwned(tbl, id, user) /= Null THEN Null
    ELSE IF id \in Ids(tbl) THEN Some([kind |-> "notyours"])
    ELSE Some(NotFoundMsg)

\* what the handler answers right after the SELECT, if anything
LookupReply(tbl, id, user) ==
    IF FindOwned(tbl, id, user) = Null THEN Some(NotFoundMsg) ELSE Null

\* the SELECT completes: without a row the handler calls reply ("not found")
\* and returns, with a row it goes on to the UPDATE
UpdSelect(c) ==
    /\ cmd[c].pc = "upd_select"
    /\ LET k == cmd[c]
           rec == FindOwned(table, k.id[1], k.user)
           answer == LookupReply(table, k.id[1], k.user)
       IN  cmd' = [cmd EXCEPT ![c] =
              IF answer /= Null
                 THEN [k EXCEPT !.pc = "reply", !.rec = rec, !.out = answer]
                 ELSE [k EXCEPT !.pc = "upd_update", !.rec = rec]]
    /\ UNCHANGED <<table, seq, clock, written>>

\* the UPDATE completes; the handler builds the embed and calls reply
UpdUpdate(c) ==
    /\ cmd[c].pc = "upd_update"
    /\ LET k == cmd[c]
           id == k.id[1]
       IN  /\ table' = UpdateProof(table, id, k.proof[1])
           /\ written' = [i \in DOMAIN written |->
                            IF i = id THEN Append(written[i], k.proof)
                                      ELSE written[i]]
           /\ cmd' = [cmd EXCEPT ![c] =
                 [k EXCEPT !.pc = "reply",
                           !.out = Some(UpdatedEmbed(id, k.rec[1], k.proof[1]))]]
    /\ UNCHANGED <<seq, clock>>

\* interactionCreate with commandName attend_list, up to the await of the SELECT
DeliverList(c, D) ==
    /\ CanDeliver(c, D)
    /\ \E u \in Users, limitOpt \in D.limits :
          cmd' = [cmd EXCEPT ![c] =
                [Idle EXCEPT
                    !.pc = "list_select", !.user = u, !.name = "attend_list",
                    !.limitOpt = limitOpt,
                    !.limit = Some(EffectiveLimit(limitOpt))]]
    /\ UNCHANGED <<table, seq, clock, written>>

\* the SELECT completes; the handler builds the text and calls reply
ListSelect(c) ==
    /\ cmd[c].pc = "list_select"
    /\ LET k == cmd[c]
       IN  \E rows \in ListRecent(table, k.user, k.limit[1]) :
              cmd' = [cmd EXCEPT ![c] =
                 [k EXCEPT !.pc = "reply", !.rows = Some(rows),
                           !.out = Some(ListMsg(rows))]]
    /\ UNCHANGED <<table, seq, clock, written>>

\* a failing UPDATE that has already written the url
StoreFail_Partial(c) ==
    /\ cmd[c].pc \in {"add_insert", "upd_select", "upd_update", "list_select"}
    /\ cmd' = [cmd EXCEPT ![c].pc = "catch", ![c].err = Some("store")]
    /\ table' = IF cmd[c].pc = "upd_update"
                   THEN {IF r.id = cmd[c].id[1]
                            THEN [r EXCEPT !.fileUrl = Some(cmd[c].proof[1].url)]
                            ELSE r : r \in table}
                   ELSE table
    /\ UNCHANGED <<seq, clock, written>>

\* the pending store call fails (runAsync / getAsync / allAsync reject): the
\* statement has no effect and the await throws into the catch block
StoreFail(c) ==
    /\ cmd[c].pc \in {"add_insert", "upd_select", "upd_update", "list_select"}
    /\ cmd' = [cmd EXCEPT ![c].pc = "catch", ![c].err = Some("store")]
    /\ UNCHANGED <<table, seq, clock, written>>

\* interaction.reply resolves: the message is delivered, the handler returns
ReplyOk(c) ==
    /\ cmd[c].pc = "reply"
    /\ cmd' = [cmd EXCEPT ![c] = Returned(cmd[c], <<cmd[c].out[1].kind>>, FALSE)]
    /\ UNCHANGED <<table, seq, clock, written>>

\* a reply that rejects after the message went out
ReplyFail_AfterDelivery(c) ==
    /\ cmd[c].pc = "reply"
    /\ cmd' = [cmd EXCEPT ![c].pc = "catch", ![c].err = Some("reply"),
                          ![c].replies = <<cmd[c].out[1].kind>>]
    /\ UNCHANGED <<table, seq, clock, written>>

\* interaction.reply rejects: nothing is delivered, the await throws into the
\* catch block
ReplyFail(c) ==
    /\ cmd[c].pc = "reply"
    /\ cmd' = [cmd EXCEPT ![c].pc = "catch", ![c].err = Some("reply")]
    /\ UNCHANGED <<table, seq, clock, written>>

\* the catch block: followUp if the interaction was replied to, reply if not;
\* the delivery succeeds
CatchReplyOk(c) ==
    /\ cmd[c].pc = "catch"
    /\ cmd' = [cmd EXCEPT ![c] =
          Returned(cmd[c], Append(cmd[c].replies, FailureMsg.kind), FALSE)]
    /\ UNCHANGED <<table, seq, clock, written>>

\* the catch block: the delivery of the failure message rejects as well, and
\* the rejection leaves the handler
CatchReplyFail(c) ==
    /\ cmd[c].pc = "catch"
    /\ cmd' = [cmd EXCEPT ![c] = Returned(cmd[c], cmd[c].replies, TRUE)]
    /\ UNCHANGED <<table, seq, clock, written>>

\* the steps of an invocation after its delivery
Step(c) ==
    \/ AddInsert(c)
    \/ UpdSelect(c)
    \/ UpdUpdate(c)
    \/ ListSelect(c)
    \/ StoreFail(c)
    \/ ReplyOk(c)
    \/ ReplyFail(c)
    \/ CatchReplyOk(c)
    \/ CatchReplyFail(c)

\* commands of several users in flight together
Next ==
    \E c \in Slots :
        \/ DeliverAdd(c, Small)
        \/ DeliverUpdatefile(c, Small)
        \/ DeliverList(c, Small)
        \/ Step(c)

Spec == Init /\ [][Next]_vars

\* the inputs of the commands that overlap, where every one is followed to
\* its end
Few ==
    [overlap |-> TRUE,
     subjects |-> {"Math"},
     statuses |-> {"absent"},
     reasons |-> {Null},
     proofs |-> {Null},
     attachments |-> {Att1},
     ids |-> 1..MaxRows,
     limits |-> {Some(1)},
     times |-> {1000}]

FairNext ==
    \E c \in Slots :
        \/ DeliverAdd(c, Few)
        \/ DeliverUpdatefile(c, Few)
        \/ DeliverList(c, Few)
        \/ Step(c)

\* every pending store call and every pending reply settles
FairSpec == Init /\ [][FairNext]_vars /\ \A c \in Slots : WF_vars(Step(c))

\* commands one after the other
SeqNext ==
    \E c \in Slots :
        \/ DeliverAdd(c, Rich)
        \/ DeliverUpdatefile(c, Rich)
        \/ DeliverList(c, Rich)
        \/ Step(c)

SeqSpec == Init /\ [][SeqNext]_vars

\* the inputs of the commands that come one after the other at different
\* times, two of them within one second
Timed ==
    [overlap |-> FALSE,
     subjects |-> {"Math"},
     statuses |-> {"absent"},
     reasons |-> {Null},
     proofs |-> {Null},
     attachments |-> {Att1},
     ids |-> {1},
     limits |-> {Null, Some(1)},
     times |-> {1000, 1500, 2000}]

TimeNext ==
    \E c \in Slots :
        \/ DeliverAdd(c, Timed)
        \/ DeliverUpdatefile(c, Timed)
        \/ DeliverList(c, Timed)
        \/ Step(c)

TimeSpec == Init /\ [][TimeNext]_vars

\* the inputs of the commands that overlap, with records that differ in
\* subject and in the proof they are created with
Mixed ==
    [overlap |-> TRUE,
     subjects |-> {"Math", "Physics"},
     statuses |-> {"absent"},
     reasons |-> {Null},
     proofs |-> {Null, Some(Att1)},
     attachments |-> {Att2},
     ids |-> {1},
     limits |-> {Some(1)},
     times |-> {1000}]

MixNext ==
    \E c \in Slots :
        \/ DeliverAdd(c, Mixed)
        \/ DeliverUpdatefile(c, Mixed)
        \/ DeliverList(c, Mixed)
        \/ Step(c)

MixSpec == Init /\ [][MixNext]_vars

-----------------------------------------------------------------------------
(* Claims *)

\* the invocation in slot c takes the step
Acts(c) == cmd'[c] /= cmd[c]

\* the row of the table with the given id
RowOf(tbl, id) == CHOOSE r \in tbl : r.id = id

\* clamping into [MinLimit, MaxLimit], the default for an omitted limit only
Clamped(limitOpt) ==
    IF limitOpt = Null THEN DefaultLimit
    ELSE IF limitOpt[1] < MinLimit THEN MinLimit
    ELSE IF limitOpt[1] > MaxLimit THEN MaxLimit
    ELSE limitOpt[1]

\* C1: the limit attend_list queries with is the requested limit clamped into
\* [1, 20]; the default 5 is used only when the limit is omitted.
C1_LimitClamped ==
    \A c \in Slots :
        (cmd[c].name = "attend_list" /\ cmd[c].limit /= Null)
            => cmd[c].limit[1] = Clamped(cmd[c].limitOpt)

\* C2: whatever the interleaving of the users' commands, every row attend_list
\* returns to a caller, and every line of the reply, is a record of that caller.
C2_ListOnlyOwn ==
    \A c \in Slots :
        cmd[c].rows /= Null =>
            /\ \A i \in 1..Len(cmd[c].rows[1]) : cmd[c].rows[1][i].userId = cmd[c].user
            /\ cmd[c].out[1].kind = "list" =>
                  \A i \in 1..Len(cmd[c].out[1].lines) :
                      \E r \in table : /\ r.id = cmd[c].out[1].lines[i].id
                                       /\ r.userId = cmd[c].user

\* C2 happens: a caller is shown a record while another user's record is stored
C2_Witness ==
    \E c \in Slots :
        /\ cmd[c].pc = "reply"
        /\ cmd[c].rows /= Null
        /\ Len(cmd[c].rows[1]) > 0
        /\ \E r \in table : r.userId /= cmd[c].user

\* C3: a step changes a record only if it is the UPDATE of an attend_updatefile
\* command of that record's owner, and then only the proof changes; no record
\* is removed.
C3_OnlyOwnerChanges ==
    [][\A r \in table :
          r \notin table' =>
              \E c \in Slots :
                  /\ Acts(c)
                  /\ cmd[c].name = "attend_updatefile"
                  /\ cmd[c].user = r.userId
                  /\ cmd[c].id = Some(r.id)
                  /\ [r EXCEPT !.fileUrl = Some(cmd[c].proof[1].url),
                               !.fileName = Some(cmd[c].proof[1].name)] \in table'
      ]_vars

\* C3 happens: a record's proof was replaced while another user's
\* attend_updatefile on the same id was turned away
C3_Witness ==
    \E r \in table, c \in Slots :
        /\ Len(written[r.id]) > 1
        /\ cmd[c].name = "attend_updatefile"
        /\ cmd[c].pc = "reply"
        /\ cmd[c].id = Some(r.id)
        /\ cmd[c].user /= r.userId

\* the caller of the attend_updatefile in slot c owns no record with its id
NotOwned(c) ==
    ~\E r \in table : r.id = cmd[c].id[1] /\ r.userId = cmd[c].user

\* C4: an attend_updatefile whose id does not exist, or is a record of another
\* user, is answered "not found" once its lookup completes, and no step of it
\* changes the table.
C4_NotFoundUnchanged ==
    [][\A c \in Slots :
          (Acts(c) /\ cmd[c].name = "attend_updatefile") =>
              /\ (cmd[c].pc = "upd_select" /\ NotOwned(c)) =>
                    /\ table' = table
                    /\ cmd'[c].pc /= "catch" =>
                          /\ cmd'[c].pc = "reply"
                          /\ cmd'[c].out = Some(NotFoundMsg)
              /\ (cmd[c].pc = "reply" /\ cmd[c].out = Some(NotFoundMsg)) =>
                    /\ table' = table
                    /\ cmd'[c].pc = "done" => cmd'[c].replies = <<"notfound">>
      ]_vars

\* C4 happens: one attend_updatefile on an id that does not exist and one on a
\* record of another user are both being answered "not found"
C4_Witness ==
    \E c, d \in Slots :
        /\ cmd[c].name = "attend_updatefile" /\ cmd[c].pc = "reply"
        /\ cmd[c].out = Some(NotFoundMsg)
        /\ cmd[c].id[1] \notin Ids(table)
        /\ cmd[d].name = "attend_updatefile" /\ cmd[d].pc = "reply"
        /\ cmd[d].out = Some(NotFoundMsg)
        /\ \E r \in table : r.id = cmd[d].id[1] /\ r.userId /= cmd[d].user

\* C5: the answer to an attend_updatefile on an id the caller does not own is
\* the same in every store that differs from the present one only in records
\* of other users, so it is the same for another user's id and for no id.
C5_NotFoundSameReply ==
    /\ \A u \in Users, i \in 1..(MaxRows + 1) :
          \A T \in SUBSET {r \in table : r.userId /= u} :
              LookupReply({r \in table : r.userId = u} \cup T, i, u)
                 = LookupReply(table, i, u)
    /\ \A c \in Slots :
          (cmd[c].name = "attend_updatefile" /\ cmd[c].pc = "reply" /\ NotOwned(c))
              => cmd[c].out = Some(NotFoundMsg)

\* C5 happens: an attend_updatefile on a record of another user is being
\* answered
C5_Witness ==
    \E c \in Slots :
        /\ cmd[c].name = "attend_updatefile" /\ cmd[c].pc = "reply"
        /\ cmd[c].id[1] \in Ids(table)
        /\ NotOwned(c)

\* C6: the id an INSERT returns is greater than every id in the table, than
\* the largest id ever assigned and than every id another invocation holds;
\* no two rows share an id.
C6_IdsIncrease ==
    /\ [](\A r1, r2 \in table : r1.id = r2.id => r1 = r2)
    /\ [][\A c \in Slots :
             (cmd[c].pc = "add_insert" /\ cmd'[c].pc = "reply") =>
                 LET id == cmd'[c].lastID[1]
                 IN  /\ id > seq
                     /\ \A r \in table : id > r.id
                     /\ \A d \in Slots : cmd[d].lastID /= Null => id > cmd[d].lastID[1]
                     /\ \E r \in table' \ table : r.id = id
         ]_vars

\* C6 happens: a second INSERT, of another user, has returned its id
C6_Witness ==
    \E c \in Slots, r1, r2 \in table :
        /\ cmd[c].pc = "reply" /\ cmd[c].lastID = Some(r2.id)
        /\ r1.id < r2.id
        /\ r1.userId /= r2.userId

\* C7: the stored reason of an attend_add is "Not provided" for absent with
\* the reason omitted, null for present with the reason omitted, and the
\* supplied reason when one is supplied and not empty.
C7_ReasonPolicy ==
    \A c \in Slots :
        (cmd[c].name = "attend_add" /\ cmd[c].lastID /= Null) =>
            LET r == RowOf(table, cmd[c].lastID[1])
                o == cmd[c].reasonOpt
            IN  /\ r.status = cmd[c].status[1]
                /\ (o = Null /\ r.status = "absent") => r.reason = Some("Not provided")
                /\ (o = Null /\ r.status = "present") => r.reason = Null
                /\ (o /= Null /\ o[1] /= "") => r.reason = o

\* C7 happens: an absent record without a reason has been stored next to a
\* present one without a reason and one with a supplied reason
C7_Witness ==
    \E c \in Slots :
        /\ cmd[c].name = "attend_add" /\ cmd[c].pc = "reply"
        /\ cmd[c].reasonOpt = Null /\ cmd[c].status = Some("absent")
        /\ RowOf(table, cmd[c].lastID[1]).reason = Some("Not provided")
        /\ \E r \in table :
              r.status = "present" /\ r.reason \in {Null, Some("sick")}

\* the proof written last to the row with the given id
LastWritten(id) == written[id][Len(written[id])][1]

\* C8: after two attend_updatefile commands on a record, one after the other,
\* the record holds the url and the name of the second attachment, and an
\* attend_list that follows shows the second attachment's url for it.
C8_LastWriteWins ==
    /\ \A r \in table :
          Len(written[r.id]) > 2 =>
              /\ r.fileUrl = Some(LastWritten(r.id).url)
              /\ r.fileName = Some(LastWritten(r.id).name)
    /\ \A c \in Slots :
          (cmd[c].name = "attend_list" /\ cmd[c].pc = "reply"
             /\ cmd[c].out[1].kind = "list") =>
              \A i \in 1..Len(cmd[c].out[1].lines) :
                  LET ln == cmd[c].out[1].lines[i]
                  IN  Len(written[ln.id]) > 2 =>
                          ln.proof = Some(LastWritten(ln.id).url)

\* C8 happens: a record created with a proof was given that attachment again
\* and then another one, and an attend_list shows the record
C8_Witness ==
    \E c \in Slots :
        /\ cmd[c].name = "attend_list" /\ cmd[c].pc = "reply"
        /\ cmd[c].out[1].kind = "list"
        /\ \E i \in 1..Len(cmd[c].out[1].lines) :
              LET ln == cmd[c].out[1].lines[i]
              IN  /\ written[ln.id] = <<Some(Att1), Some(Att1), Some(Att2)>>
                  /\ ln.proof = Some(Att2.url)

\* C9: the UPDATE of a successful attend_updatefile replaces the record with
\* the given id by one that differs in fileUrl and fileName only, and leaves
\* every other record and the id sequence as they are.
C9_UpdateFrame ==
    [][\A c \in Slots :
          (cmd[c].pc = "upd_update" /\ cmd'[c].pc = "reply") =>
              LET old == RowOf(table, cmd[c].id[1])
                  p == cmd[c].proof[1]
              IN  /\ table' = (table \ {old}) \cup
                         {[id |-> old.id, userId |-> old.userId,
                           userName |-> old.userName, subject |-> old.subject,
                           status |-> old.status, reason |-> old.reason,
                           fileUrl |-> Some(p.url), fileName |-> Some(p.name),
                           createdAt |-> old.createdAt]}
                  /\ seq' = seq
      ]_vars

\* C9 happens: one of two records, of two users, got a proof and the other did
\* not
C9_Witness ==
    \E c \in Slots, r1, r2 \in table :
        /\ cmd[c].pc = "reply" /\ cmd[c].out[1].kind = "updated"
        /\ cmd[c].id = Some(r1.id)
        /\ r1.fileUrl = Some(cmd[c].proof[1].url)
        /\ r2.id /= r1.id /\ r2.userId /= r1.userId /\ r2.fileUrl = Null

\* C10 as stated: a command that has ended has been sent exactly one reply.
C10_ExactlyOneReply ==
    \A c \in Slots : cmd[c].pc = "done" => Len(cmd[c].replies) = 1

\* C10: every command delivered ends; one that has ended has been sent at most
\* one reply, and none only where the delivery of the failure message failed.
C10_OneReplyUnlessUndeliverable ==
    /\ [](\A c \in Slots :
             /\ Len(cmd[c].replies) <= 1
             /\ cmd[c].pc = "done" => (Len(cmd[c].replies) = 0 <=> cmd[c].escaped))
    /\ \A c \in Slots : (cmd[c].pc \notin {"idle", "done"}) ~> (cmd[c].pc = "done")

\* C10 happens: one command has ended with its reply, another with the failure
\* message after a failed store call
C10_Witness ==
    \E c, d \in Slots :
        /\ cmd[c].pc = "done" /\ cmd[c].replies = <<"saved">>
        /\ cmd[d].pc = "done" /\ cmd[d].replies = <<"failure">>

\* C11 as stated: an attend_add with the reason supplied as the empty string
\* stores the empty string as the record's reason.
C11_EmptyReasonVerbatim ==
    \A c \in Slots :
        (cmd[c].name = "attend_add" /\ cmd[c].lastID /= Null
           /\ cmd[c].reasonOpt = Some("")) =>
            RowOf(table, cmd[c].lastID[1]).reason = Some("")

\* C11: an attend_add with the reason supplied as the empty string stores what
\* it stores for an omitted reason: "Not provided" for absent, null for present.
C11_EmptyReasonAsOmitted ==
    \A c \in Slots :
        (cmd[c].name = "attend_add" /\ cmd[c].lastID /= Null
           /\ cmd[c].reasonOpt = Some("")) =>
            LET r == RowOf(table, cmd[c].lastID[1])
            IN  /\ r.status = "absent" => r.reason = Some("Not provided")
                /\ r.status = "present" => r.reason = Null

\* C11 happens: an absent record with the empty reason has been stored after a
\* present record without a reason
C11_Witness ==
    \E c \in Slots :
        /\ cmd[c].name = "attend_add" /\ cmd[c].pc = "reply"
        /\ cmd[c].reasonOpt = Some("") /\ cmd[c].status = Some("absent")
        /\ RowOf(table, cmd[c].lastID[1]).reason = Some("Not provided")
        /\ \E r \in table : r.status = "present" /\ r.reason = Null

\* the time a createdAt stands for, in milliseconds
Millis(iso) == iso.sec * MsPerSecond + iso.ms

\* the smaller of two numbers
Min(a, b) == IF a < b THEN a ELSE b

\* C12: attend_list returns min(limit, n) of the caller's n records, a record
\* created later before one created earlier, and omits no record created later
\* than one it lists.
C12_MostRecentFirst ==
    \A c \in Slots :
        (cmd[c].name = "attend_list" /\ cmd[c].pc = "reply") =>
            LET rows == cmd[c].rows[1]
                own == {r \in table : r.userId = cmd[c].user}
                listed == {rows[i] : i \in 1..Len(rows)}
            IN  /\ Len(rows) = Min(cmd[c].limit[1], Cardinality(own))
                /\ listed \subseteq own
                /\ \A i, j \in 1..Len(rows) :
                      (i < j /\ rows[i].createdAt /= rows[j].createdAt) =>
                          Millis(rows[i].createdAt) > Millis(rows[j].createdAt)
                /\ \A r \in own \ listed, x \in listed :
                      Millis(r.createdAt) <= Millis(x.createdAt)

\* an invocation waits for a store call
StoreWait == {"add_insert", "upd_select", "upd_update", "list_select"}

\* C13 as stated: a command whose store call failed ends with exactly one
\* failure message sent, and the failure leaves the store as it was.
C13_StoreFailureOneMessage ==
    [][\A c \in Slots :
          Acts(c) =>
              /\ (cmd[c].pc \in StoreWait /\ cmd'[c].pc = "catch") =>
                    table' = table /\ seq' = seq
              /\ (cmd[c].pc = "catch" /\ cmd[c].err = Some("store")) =>
                    /\ table' = table /\ seq' = seq
                    /\ cmd'[c].pc = "done"
                    /\ cmd'[c].replies = <<"failure">>
      ]_vars

\* C13: a failed store call changes nothing in the store, is not retried, and
\* the command ends from the catch block without touching the store: with the
\* one failure message sent, or with none where its delivery failed.
C13_StoreFailureNoEffect ==
    [][\A c \in Slots :
          Acts(c) =>
              /\ (cmd[c].pc \in StoreWait /\ cmd'[c].pc = "catch") =>
                    /\ table' = table /\ seq' = seq /\ written' = written
                    /\ cmd'[c].err = Some("store")
                    /\ cmd'[c].replies = <<>>
              /\ (cmd[c].pc = "catch" /\ cmd[c].err = Some("store")) =>
                    /\ table' = table /\ seq' = seq /\ written' = written
                    /\ cmd'[c].pc = "done"
                    /\ \/ cmd'[c].replies = <<"failure">> /\ ~cmd'[c].escaped
                       \/ cmd'[c].replies = <<>> /\ cmd'[c].escaped
      ]_vars

\* C13 happens: the UPDATE of an attend_updatefile has failed and the record
\* still has no proof, and another command has ended with the failure message
C13_Witness ==
    \E c, d \in Slots :
        /\ cmd[c].name = "attend_updatefile" /\ cmd[c].pc = "catch"
        /\ cmd[c].err = Some("store") /\ cmd[c].rec /= Null
        /\ RowOf(table, cmd[c].id[1]).fileUrl = Null
        /\ RowOf(table, cmd[c].id[1]).fileName = Null
        /\ cmd[d].pc = "done" /\ cmd[d].replies = <<"failure">>

\* C14: the handling of a command never ends with an error leaving the
\* handler, also where the delivery of the failure message fails.
C14_NothingEscapes ==
    \A c \in Slots : ~cmd[c].escaped

\* C15: a step changes the set of records only if it is the INSERT of an
\* attend_add, which adds one record and keeps the others as they are; a step
\* of attend_updatefile keeps the set of ids, a step of attend_list keeps the
\* store; no record is ever removed.
C15_OnlyAddCreates ==
    [][/\ Ids(table) \subseteq Ids(table')
       /\ \A c \in Slots :
             Acts(c) =>
                 /\ cmd'[c].name = "attend_list" =>
                       table' = table /\ seq' = seq
                 /\ cmd'[c].name = "attend_updatefile" =>
                       /\ Ids(table') = Ids(table)
                       /\ Cardinality(table') = Cardinality(table)
                 /\ cmd'[c].name = "attend_add" =>
                       IF cmd[c].pc = "add_insert" /\ cmd'[c].pc = "reply"
                          THEN /\ table \subseteq table'
                               /\ Cardinality(table') = Cardinality(table) + 1
                          ELSE table' = table
      ]_vars

\* C15 happens: a second record of a user has been inserted next to the first,
\* which had got a proof before
C15_Witness ==
    \E c \in Slots, r1, r2 \in table :
        /\ cmd[c].name = "attend_add" /\ cmd[c].pc = "reply"
        /\ cmd[c].lastID = Some(r2.id)
        /\ r1.id < r2.id /\ r1.userId = r2.userId
        /\ Len(written[r1.id]) > 1

\* C16: every record has its proof url and its proof name both set or both
\* null.
C16_ProofBothOrNone ==
    \A r \in table : (r.fileUrl = Null) <=> (r.fileName = Null)

\* C16 happens: a record created without a proof has got one, next to a record
\* created with a proof
C16_Witness ==
    \E r1, r2 \in table :
        /\ written[r1.id][1] = Null /\ Len(written[r1.id]) > 1
        /\ r1.fileUrl /= Null
        /\ written[r2.id] = <<Some(Att1)>>
        /\ r2.fileUrl /= Null

\* C17: the id an attend_add puts in its confirmation is the id of the record
\* its own INSERT added, which has the caller as owner and the command's
\* subject, status, reason and proof; while the command waits for its reply the
\* record with that id keeps that owner, subject, status and reason.
C17_ReportsOwnRecord ==
    /\ [](\A c \in Slots :
             (cmd[c].name = "attend_add" /\ cmd[c].pc = "reply") =>
                 \E r \in table :
                     /\ r.id = cmd[c].out[1].id
                     /\ r.userId = cmd[c].user
                     /\ r.subject = cmd[c].subject[1]
                     /\ r.status = cmd[c].status[1]
                     /\ r.reason = cmd[c].reason
                     /\ cmd[c].out[1].class = r.subject)
    /\ [][\A c \in Slots :
             (cmd[c].pc = "add_insert" /\ cmd'[c].pc = "reply") =>
                 \E r \in table' \ table :
                     /\ r.id = cmd'[c].out[1].id
                     /\ r.id = cmd'[c].lastID[1]
                     /\ r.userId = cmd[c].user
                     /\ r.userName = UserTag(cmd[c].user)
                     /\ r.subject = cmd[c].subject[1]
                     /\ r.status = cmd[c].status[1]
                     /\ r.reason = cmd[c].reason
                     /\ r.fileUrl = (IF cmd[c].proof = Null THEN Null
                                     ELSE Some(cmd[c].proof[1].url))
                     /\ r.fileName = (IF cmd[c].proof = Null THEN Null
                                      ELSE Some(cmd[c].proof[1].name))
         ]_vars

\* C17 happens: two attend_add commands of two users, with different subjects,
\* wait for their replies together
C17_Witness ==
    \E c, d \in Slots :
        /\ cmd[c].name = "attend_add" /\ cmd[c].pc = "reply"
        /\ cmd[d].name = "attend_add" /\ cmd[d].pc = "reply"
        /\ cmd[c].user /= cmd[d].user
        /\ cmd[c].subject /= cmd[d].subject
        /\ cmd[c].out[1].id < cmd[d].out[1].id

\* C18: whatever the interleaving of the attend_updatefile commands on a
\* record, the record holds the url and the name of the attachment whose UPDATE
\* ran last, once any UPDATE has run.
C18_LastUpdateWhole ==
    \A r \in table :
        Len(written[r.id]) > 1 =>
            /\ r.fileUrl = Some(written[r.id][Len(written[r.id])][1].url)
            /\ r.fileName = Some(written[r.id][Len(written[r.id])][1].name)

\* C18 happens: two attend_updatefile commands of the owner on one record,
\* with different attachments, have both run their UPDATE and wait for their
\* replies together
C18_Witness ==
    \E c, d \in Slots, r \in table :
        /\ c /= d
        /\ cmd[c].name = "attend_updatefile" /\ cmd[c].pc = "reply"
        /\ cmd[d].name = "attend_updatefile" /\ cmd[d].pc = "reply"
        /\ cmd[c].out[1].kind = "updated" /\ cmd[d].out[1].kind = "updated"
        /\ cmd[c].id = Some(r.id) /\ cmd[d].id = Some(r.id)
        /\ cmd[c].proof /= cmd[d].proof
        /\ written[r.id] = <<Null, cmd[c].proof, cmd[d].proof>>
        /\ r.fileUrl = Some(cmd[d].proof[1].url)
        /\ r.fileName = Some(cmd[d].proof[1].name)

====
